---- MODULE Spec2Model ----
(***************************************************************************)
(* The repository analysis pipeline of supabase/functions/analyze-repo:    *)
(* fetchWithExponentialBackoff, the three GitHub metadata fetches, the     *)
(* OpenAI call and the parsing / sanitising of its completion.             *)
(***************************************************************************)
EXTENDS Integers, Sequences, FiniteSets, TLC

VARIABLES
    frames,        \* one activation of fetchWithExponentialBackoff per call site
    pc,            \* position of the serve handler
    env,           \* Deno.env: which of the two keys are configured
    request,       \* the request body the handler was given
    fetched,       \* what each fetchGitHub* call resolved to
    analysisPrompt, \* the prompt built by createDetailedAnalysisPrompt
    repoInfo,      \* what parseGitHubUrl(githubUrl) returned (line 139)
    openaiData,    \* the body of the inference service's 2xx answer
    response,      \* the Response the handler returned
    page           \* the state of the submit page (SubmitPage)

vars == <<frames, pc, env, request, repoInfo, fetched, analysisPrompt, openaiData,
          response, page>>

(***************************************************************************)
(* Bounds and program constants                                            *)
(***************************************************************************)
\* Largest maxRetries tried when the fetcher is exercised on its own.
MaxRetriesBound == 4

\* line 47: the maxRetries a call gets when it passes none
DefaultMaxRetries == 3
GitHubMaxRetries == 2
GitHubInitialDelay == 500
OpenAIMaxRetries == 3
OpenAIInitialDelay == 1000

\* Math.random() in thousandths: the smallest and (nearly) the largest draw.
RandomSamples == {0, 999}
\* Delays are kept in units of 1/DelayScale ms, so that a tenth (the 0.1 of
\* line 70) of a thousandth of a delay is a whole number.
DelayScale == 10 * 1000

\* HTTP statuses the upstream services answer with.
Statuses == {200, 301, 403, 404, 429, 500, 503}

(***************************************************************************)
(* fetchWithExponentialBackoff                                             *)
(***************************************************************************)
NoOutcome == [kind |-> "none", status |-> 0]
HttpResponse(s) == [kind |-> "response", status |-> s]
NetworkException == [kind |-> "exception", status |-> 0]
\* What one call of fetch(url, options) can do: answer, or reject.
Outcomes == {HttpResponse(s) : s \in Statuses} \cup {NetworkException}

\* response.ok
ResponseOk(status) == status >= 200 /\ status <= 299

\* line 57: successful or client error (4xx except 429): return immediately
ReturnsImmediately(status) ==
    ResponseOk(status) \/ (status >= 400 /\ status < 500 /\ status # 429)

\* line 62: rate limit (429) or server error (5xx)
IsRetryableStatus(status) == status = 429 \/ status >= 500

\* A loop body without the tests of lines 63 and 86.
IsLastAttemptNever(attempt, maxRetries) == FALSE
\* lines 63 and 86: attempt === maxRetries
IsLastAttempt(attempt, maxRetries) == attempt = maxRetries

\* line 52: the loop condition attempt <= maxRetries
LoopContinuesStrict(attempt, maxRetries) == attempt < maxRetries
LoopContinues(attempt, maxRetries) == attempt <= maxRetries

RECURSIVE Pow2(_)
Pow2(n) == IF n = 0 THEN 1 ELSE 2 * Pow2(n - 1)

\* A delay that does not grow: initialDelay plus its jitter at every attempt.
TotalDelayFlat(initialDelay, attempt, random) ==
    initialDelay * DelayScale + random * initialDelay

\* A delay one power of two ahead: initialDelay * 2^(attempt + 1) plus jitter.
TotalDelayNextPower(initialDelay, attempt, random) ==
    LET delay == initialDelay * Pow2(attempt + 1)
    IN  delay * DelayScale + random * delay

\* lines 69-71 and 92-94: delay + Math.random() * 0.1 * delay, times DelayScale
TotalDelay(initialDelay, attempt, random) ==
    LET delay == initialDelay * Pow2(attempt)
    IN  delay * DelayScale + random * delay

\* The activation record of one call: where it stands (st), its arguments,
\* its locals attempt, lastError and totalDelay, the response or error in
\* hand (result), and how many times it has called fetch (fetches).
\* Responses and errors are told apart by the fetch they came from, the
\* first being 1: lastError is 0 for null and else the fetch whose error it
\* holds; resultOf is the fetch that produced result, 0 for none or for the
\* new Error of line 104.
IdleFrame(maxRetries, initialDelay) ==
    [st |-> "idle", attempt |-> 0, maxRetries |-> maxRetries,
     initialDelay |-> initialDelay, lastError |-> 0, totalDelay |-> 0,
     result |-> NoOutcome, resultOf |-> 0, fetches |-> 0]

\* return response: the activation ends and its locals are gone
Return(f, outcome) ==
    [f EXCEPT !.st = "returned", !.result = outcome, !.resultOf = f.fetches,
              !.lastError = 0, !.totalDelay = 0]
\* throw lastError (line 88), throw lastError || new Error(...) (line 104)
Throw(f) ==
    [f EXCEPT !.st = "thrown", !.result = NetworkException,
              !.resultOf = f.lastError, !.lastError = 0, !.totalDelay = 0]
\* await new Promise(resolve => setTimeout(resolve, totalDelay)); response
\* (or error) is still in scope while the timer runs
Backoff(f, outcome, random) ==
    [f EXCEPT !.st = "waiting", !.result = outcome, !.resultOf = f.fetches,
              !.totalDelay = TotalDelay(f.initialDelay, f.attempt, random)]

\* lines 50-54: the call enters the loop and calls fetch, unless the loop
\* condition fails at once (line 104)
NewFrame(maxRetries, initialDelay) ==
    IF LoopContinues(0, maxRetries)
    THEN [IdleFrame(maxRetries, initialDelay) EXCEPT !.st = "fetching"]
    ELSE Throw(IdleFrame(maxRetries, initialDelay))

\* A fetcher that retries whatever is not a success.
AfterFetchRetryingAnyFailure(f, outcome, random) ==
    LET g == [f EXCEPT !.fetches = f.fetches + 1]
    IN  IF outcome.kind = "response" /\ ResponseOk(outcome.status)
        THEN Return(g, outcome)
        ELSE IF IsLastAttempt(g.attempt, g.maxRetries)
             THEN (IF outcome.kind = "response" THEN Return(g, outcome) ELSE Throw(g))
             ELSE Backoff(g, outcome, random)

\* A fetcher whose catch keeps the first error: lastError = lastError || error.
AfterFetchKeepingFirstError(f, outcome, random) ==
    LET g == [f EXCEPT !.fetches = f.fetches + 1]
        e == [g EXCEPT !.lastError = IF g.lastError # 0 THEN g.lastError
                                     ELSE g.fetches]
    IN  IF outcome.kind = "response"
        THEN IF ReturnsImmediately(outcome.status)
             THEN Return(g, outcome)
             ELSE IF IsRetryableStatus(outcome.status)
                  THEN IF IsLastAttempt(g.attempt, g.maxRetries)
                       THEN Return(g, outcome)
                       ELSE Backoff(g, outcome, random)
                  ELSE Return(g, outcome)
        ELSE IF IsLastAttempt(e.attempt, e.maxRetries)
             THEN Throw(e)
             ELSE Backoff(e, outcome, random)

\* One pass through the loop body (lines 53-100) once fetch() has settled
\* with `outcome`; `random` is the value Math.random() would return.
AfterFetch(f, outcome, random) ==
    LET g == [f EXCEPT !.fetches = f.fetches + 1]
    IN  IF outcome.kind = "response"
        THEN IF ReturnsImmediately(outcome.status)
             THEN Return(g, outcome)
             ELSE IF IsRetryableStatus(outcome.status)
                  THEN IF IsLastAttempt(g.attempt, g.maxRetries)
                       THEN Return(g, outcome)
                       ELSE Backoff(g, outcome, random)
                  ELSE Return(g, outcome)
        ELSE IF IsLastAttempt(g.attempt, g.maxRetries)
             THEN Throw([g EXCEPT !.lastError = g.fetches])
             ELSE Backoff([g EXCEPT !.lastError = g.fetches], outcome, random)

\* The timer fired: attempt++ and the loop condition is tested again
\* (lines 52, 77, 100); line 104 when the loop is left.
AfterBackoff(f) ==
    IF LoopContinues(f.attempt + 1, f.maxRetries)
    THEN [f EXCEPT !.st = "fetching", !.attempt = f.attempt + 1,
                   !.result = NoOutcome, !.resultOf = 0]
    ELSE Throw([f EXCEPT !.attempt = f.attempt + 1])

\* A fetcher whose attempt counter is one module-level variable, shared by
\* every call in progress.
FetchSettlesSharingAttempt(id) ==
    /\ frames[id].st = "fetching"
    /\ \E outcome \in Outcomes, random \in RandomSamples :
          LET after == AfterFetch(frames[id], outcome, random)
          IN  frames' = [i \in DOMAIN frames |->
                            IF i = id THEN after
                            ELSE [frames[i] EXCEPT !.attempt = after.attempt]]
    /\ UNCHANGED <<pc, env, request, repoInfo, fetched, analysisPrompt, openaiData,
                   response, page>>

\* await fetch(url, options) settles for call site id.
FetchSettles(id) ==
    /\ frames[id].st = "fetching"
    /\ \E outcome \in Outcomes, random \in RandomSamples :
          frames' = [frames EXCEPT ![id] = AfterFetch(frames[id], outcome, random)]
    /\ UNCHANGED <<pc, env, request, repoInfo, fetched, analysisPrompt, openaiData,
                   response, page>>

\* The backoff timer of call site id fires.
BackoffElapses(id) ==
    /\ frames[id].st = "waiting"
    /\ frames' = [frames EXCEPT ![id] = AfterBackoff(frames[id])]
    /\ UNCHANGED <<pc, env, request, repoInfo, fetched, analysisPrompt, openaiData,
                   response, page>>

(***************************************************************************)
(* JavaScript values of the completion and of the response body            *)
(***************************************************************************)
\* A scalar-position value: t is its kind, n its number, s its characters.
JsUndefined == [t |-> "undefined", n |-> 0, s |-> <<>>]
JsNull == [t |-> "null", n |-> 0, s |-> <<>>]
JsNaN == [t |-> "nan", n |-> 0, s |-> <<>>]
JsNum(k) == [t |-> "number", n |-> k, s |-> <<>>]
JsStr(chars) == [t |-> "string", n |-> 0, s |-> chars]
JsBool(b) == [t |-> "boolean", n |-> IF b THEN 1 ELSE 0, s |-> <<>>]
JsEmptyObject == [t |-> "object", n |-> 0, s |-> <<>>]
JsEmptyArray == [t |-> "array", n |-> 0, s |-> <<>>]

Digits == <<"0", "1", "2", "3", "4", "5", "6", "7", "8", "9">>
IsDigit(c) == \E i \in 1..10 : Digits[i] = c
DigitValue(c) == (CHOOSE i \in 1..10 : Digits[i] = c) - 1

RECURSIVE DecimalValue(_)
DecimalValue(chars) ==
    IF chars = <<>> THEN 0
    ELSE 10 * DecimalValue(SubSeq(chars, 1, Len(chars) - 1))
         + DigitValue(chars[Len(chars)])

\* ToNumber on a string: the empty string is 0, a run of digits its value,
\* anything else NaN.
StringToNumber(chars) ==
    IF \A i \in 1..Len(chars) : IsDigit(chars[i])
    THEN JsNum(DecimalValue(chars))
    ELSE JsNaN

\* ToBoolean
Truthy(v) ==
    CASE v.t = "undefined" -> FALSE
      [] v.t = "null" -> FALSE
      [] v.t = "nan" -> FALSE
      [] v.t = "number" -> v.n # 0
      [] v.t = "string" -> v.s # <<>>
      [] v.t = "boolean" -> v.n = 1
      [] OTHER -> TRUE

\* a || b
OrElse(a, b) == IF Truthy(a) THEN a ELSE b

\* ToNumber, as Math.min and Math.max apply it to their arguments
ToNumber(v) ==
    CASE v.t = "undefined" -> JsNaN
      [] v.t = "null" -> JsNum(0)
      [] v.t = "nan" -> JsNaN
      [] v.t = "number" -> v
      [] v.t = "string" -> StringToNumber(v.s)
      [] v.t = "boolean" -> JsNum(v.n)
      [] v.t = "array" -> JsNum(0)
      [] OTHER -> JsNaN

MathMin(a, b) ==
    LET x == ToNumber(a)
        y == ToNumber(b)
    IN  IF x.t = "nan" \/ y.t = "nan" THEN JsNaN
        ELSE IF x.n <= y.n THEN x ELSE y

MathMax(a, b) ==
    LET x == ToNumber(a)
        y == ToNumber(b)
    IN  IF x.t = "nan" \/ y.t = "nan" THEN JsNaN
        ELSE IF x.n >= y.n THEN x ELSE y

\* A string[] position: absent, or an array of indicator phrases.
NoArray == [t |-> "undefined", items |-> <<>>]
JsArrayOf(items) == [t |-> "array", items |-> items]

\* The indicators position: absent, null, or an object with some of its arrays.
Indicators(code, commit, doc) ==
    [t |-> "object", codePatterns |-> code, commitPatterns |-> commit,
     documentationPatterns |-> doc]
NoIndicators ==
    [t |-> "undefined", codePatterns |-> NoArray, commitPatterns |-> NoArray,
     documentationPatterns |-> NoArray]
NullIndicators == [NoIndicators EXCEPT !.t = "null"]

\* A whole JSON value: t is its kind; an object carries its own properties,
\* JsUndefined / NoIndicators standing for a property it does not have.
JsValue(kind) ==
    [t |-> kind, vciScore |-> JsUndefined, analysis |-> JsUndefined,
     confidence |-> JsUndefined, indicators |-> NoIndicators]
JsObject(vciScore, analysis, confidence, indicators) ==
    [t |-> "object", vciScore |-> vciScore, analysis |-> analysis,
     confidence |-> confidence, indicators |-> indicators]

\* The sentence of line 261, by its first words.
FallbackAnalysis ==
    JsStr(<<"Unable to perform detailed analysis.">>)
FallbackConfidence == 30
FallbackScore == 50

\* lines 259-268
FallbackResult ==
    JsObject(JsNum(FallbackScore), FallbackAnalysis, JsNum(FallbackConfidence),
             Indicators(JsArrayOf(<<>>), JsArrayOf(<<>>), JsArrayOf(<<>>)))

\* A completion text, by what JSON.parse makes of it: a SyntaxError, or a value.
NotJson == [json |-> FALSE, value |-> JsValue("null")]
JsonText(value) == [json |-> TRUE, value |-> value]

\* lines 254-269: JSON.parse(aiResponse) with the catch's fallback
ParseOrFallbackRethrow(aiResponse) ==
    IF aiResponse.json THEN [threw |-> FALSE, value |-> aiResponse.value]
    ELSE [threw |-> TRUE, value |-> JsValue("null")]
ParseOrFallback(aiResponse) ==
    IF aiResponse.json THEN [threw |-> FALSE, value |-> aiResponse.value]
    ELSE [threw |-> FALSE, value |-> FallbackResult]

\* the right-hand sides of lines 272 and 273
Clamp(v) == MathMax(JsNum(0), MathMin(JsNum(100), OrElse(v, JsNum(50))))

\* A sanitizer that substitutes the whole fallback result when a number is absent.
SanitizeSubstitutingFallback(r) ==
    IF r.t \in {"object", "array"}
    THEN [threw |-> FALSE,
          value |-> IF r.vciScore.t = "undefined" \/ r.confidence.t = "undefined"
                    THEN FallbackResult
                    ELSE [r EXCEPT !.vciScore = Clamp(r.vciScore),
                                   !.confidence = Clamp(r.confidence)]]
    ELSE [threw |-> TRUE, value |-> r]

\* lines 272-273 on analysisResult. Reading a property of null throws a
\* TypeError; so does, in module (strict) code, assigning a property to a
\* number, a string or a boolean. An array takes the properties like an object.
Sanitize(r) ==
    IF r.t \in {"object", "array"}
    THEN [threw |-> FALSE,
          value |-> [r EXCEPT !.vciScore = Clamp(r.vciScore),
                              !.confidence = Clamp(r.confidence)]]
    ELSE [threw |-> TRUE, value |-> r]

\* JSON.stringify of one property value: NaN is written as null
StringifyScalar(v) == IF v.t = "nan" THEN JsNull ELSE v

\* JSON.stringify(analysisResult), as the client parses it back: an array
\* is written by its elements only, undefined properties are left out.
JsonStringify(r) ==
    IF r.t = "array" THEN JsValue("array")
    ELSE [r EXCEPT !.vciScore = StringifyScalar(r.vciScore),
                   !.analysis = StringifyScalar(r.analysis),
                   !.confidence = StringifyScalar(r.confidence)]


(***************************************************************************)
(* parseGitHubUrl                                                          *)
(***************************************************************************)
\* Strings that are taken apart are sequences of one-character strings.
GitHubPrefix == <<"h", "t", "t", "p", "s", ":", "/", "/", "g", "i", "t", "h", "u", "b", ".", "c", "o", "m", "/">>
DotGit == <<".", "g", "i", "t">>

StartsWith(chars, prefix) ==
    /\ Len(chars) >= Len(prefix)
    /\ SubSeq(chars, 1, Len(prefix)) = prefix
EndsWith(chars, suffix) ==
    /\ Len(chars) >= Len(suffix)
    /\ SubSeq(chars, Len(chars) - Len(suffix) + 1, Len(chars)) = suffix

\* Index of the first "/" of chars, 0 when it has none.
FirstSlash(chars) ==
    IF \E i \in 1..Len(chars) : chars[i] = "/"
    THEN CHOOSE i \in 1..Len(chars) :
            chars[i] = "/" /\ \A j \in 1..(i - 1) : chars[j] # "/"
    ELSE 0

\* line 312: repo.replace(/\.git$/, '')
StripDotGit(repo) ==
    IF EndsWith(repo, DotGit) THEN SubSeq(repo, 1, Len(repo) - Len(DotGit))
    ELSE repo

NoRepo == [ok |-> FALSE, owner |-> <<>>, repo |-> <<>>]

\* lines 303-313: /^https:\/\/github\.com\/([^\/]+)\/([^\/]+)\/?$/
parseGitHubUrl(url) ==
    IF ~StartsWith(url, GitHubPrefix) THEN NoRepo
    ELSE LET rest == SubSeq(url, Len(GitHubPrefix) + 1, Len(url))
             i == FirstSlash(rest)
             owner == SubSeq(rest, 1, i - 1)
             tail == SubSeq(rest, i + 1, Len(rest))
             j == FirstSlash(tail)
             name == IF j = 0 THEN tail ELSE SubSeq(tail, 1, j - 1)
         IN  IF /\ i > 1
                /\ name # <<>>
                /\ (j = 0 \/ j = Len(tail))
             THEN [ok |-> TRUE, owner |-> owner, repo |-> StripDotGit(name)]
             ELSE NoRepo

(***************************************************************************)
(* The GitHub metadata fetches                                             *)
(***************************************************************************)
\* A string | null position: the text is kept by its length.
Pending == [t |-> "pending", len |-> 0]
\* the promise of the fetchGitHub* call rejected
Rejected == [t |-> "rejected", len |-> 0]
NullText == [t |-> "null", len |-> 0]
Text(len) == [t |-> "string", len |-> len]
TextTruthy(x) == x.t = "string" /\ x.len > 0

\* Lengths of the README and package.json texts GitHub serves.
ContentLengths == {500, 2500}

\* The body of a 2xx answer of the contents API, by how the code fares on it:
\* response.json() throws, content or the base64 encoding is missing, the
\* content does not decode, or it decodes to a text of len characters.
ContentBody(shape, len) == [shape |-> shape, len |-> len]
ContentBodies ==
    {ContentBody("notJson", 0), ContentBody("noContent", 0),
     ContentBody("badBase64", 0)}
    \cup {ContentBody("base64", len) : len \in ContentLengths}

\* lines 348-355 (and 389-396): response.json() and what follows; Rejected
\* stands for an exception leaving these lines
DecodeContent(body) ==
    CASE body.shape = "notJson" -> Rejected        \* json() throws
      [] body.shape = "noContent" -> NullText      \* line 355
      [] body.shape = "badBase64" -> Rejected      \* decode() throws
      [] OTHER -> Text(body.len)

\* lines 328-355: the try block of fetchGitHubFile once
\* fetchWithExponentialBackoff ended as frame f
fetchGitHubFileTry(f, body) ==
    IF f.st = "thrown" THEN Rejected
    ELSE IF f.result.status = 404 THEN NullText
    ELSE IF ~ResponseOk(f.result.status) THEN NullText
    ELSE DecodeContent(body)

\* fetchGitHubFile without its catch: the exception reaches Promise.all.
fetchGitHubFileUncaught(f, body) == fetchGitHubFileTry(f, body)

\* lines 327-359: with the catch, which returns null
fetchGitHubFile(f, body) ==
    LET r == fetchGitHubFileTry(f, body)
    IN  IF r.t = "rejected" THEN NullText ELSE r

\* lines 369-396: the try block of fetchGitHubReadme
fetchGitHubReadmeTry(f, body) ==
    IF f.st = "thrown" THEN Rejected
    ELSE IF f.result.status = 404 THEN NullText
    ELSE IF ~ResponseOk(f.result.status) THEN NullText
    ELSE DecodeContent(body)

\* fetchGitHubReadme decoding whatever body the last response carried,
\* without the response.ok test of line 384.
fetchGitHubReadmeIgnoringStatus(f, body) ==
    LET r == IF f.st = "thrown" THEN Rejected
             ELSE IF f.result.status = 404 THEN NullText
             ELSE DecodeContent(body)
    IN  IF r.t = "rejected" THEN NullText ELSE r

\* lines 368-400: with the catch, which returns null
fetchGitHubReadme(f, body) ==
    LET r == fetchGitHubReadmeTry(f, body)
    IN  IF r.t = "rejected" THEN NullText ELSE r

\* per_page of line 410: the most commits one answer lists
CommitsPerPage == 20
CommitCounts == {0, 3, CommitsPerPage}

\* The i-th commit GitHub lists; its strings are named by i.
GitHubCommit(i) ==
    [commit |-> [message |-> i, author |-> [name |-> i, date |-> i]]]
CommitsBody(shape, count) == [shape |-> shape, count |-> count]
\* The body of a 2xx answer of the commits API: not JSON, JSON that is no
\* array, an array with an element that has no commit, or count commits.
CommitsBodies ==
    {CommitsBody("notJson", 0), CommitsBody("notArray", 0),
     CommitsBody("badElement", 1)}
    \cup {CommitsBody("commits", n) : n \in CommitCounts}

PendingCommits == [t |-> "pending", list |-> <<>>]
RejectedCommits == [t |-> "rejected", list |-> <<>>]
CommitList(list) == [t |-> "array", list |-> list]

\* lines 427-431
MapCommits(count) ==
    [i \in 1..count |->
        [message |-> GitHubCommit(i).commit.message,
         author |-> GitHubCommit(i).commit.author.name,
         date |-> GitHubCommit(i).commit.author.date]]

\* lines 410-431: the try block of fetchGitHubCommits once
\* fetchWithExponentialBackoff ended as frame f
fetchGitHubCommitsTry(f, body) ==
    IF f.st = "thrown" THEN RejectedCommits
    ELSE IF ~ResponseOk(f.result.status) THEN CommitList(<<>>)
    ELSE IF body.shape = "commits" THEN CommitList(MapCommits(body.count))
    ELSE RejectedCommits      \* json() throws, or map, or commit.commit.message

\* fetchGitHubCommits raising on a response that is not ok, with no catch.
fetchGitHubCommitsRaisingOnError(f, body) ==
    IF f.st = "thrown" THEN CommitList(<<>>)
    ELSE IF ~ResponseOk(f.result.status) THEN RejectedCommits
    ELSE IF body.shape = "commits" THEN CommitList(MapCommits(body.count))
    ELSE CommitList(<<>>)

\* lines 409-435: with the catch, which returns []
fetchGitHubCommits(f, body) ==
    LET r == fetchGitHubCommitsTry(f, body)
    IN  IF r.t = "rejected" THEN CommitList(<<>>) ELSE r

(***************************************************************************)
(* createDetailedAnalysisPrompt                                            *)
(***************************************************************************)
ReadmeChars == 2000
FileChars == 1000
MaxFiles == 5
MaxCommitLines == 15

Min(a, b) == IF a <= b THEN a ELSE b

\* lines 161-169
RepoData(results) ==
    [readme |-> results.readme,
     files |-> IF TextTruthy(results.manifest)
               THEN <<[name |-> "package.json", content |-> results.manifest,
                       path |-> "package.json"]>>
               ELSE <<>>,
     commits |-> results.commits.list]

\* One block of the prompt: the url it quotes, the characters of text it
\* quotes, the number it states, and the entries it lists.
Section(sec, text, chars, count, items) ==
    [sec |-> sec, text |-> text, chars |-> chars, count |-> count, items |-> items]

\* A prompt builder that quotes the whole README.
createDetailedAnalysisPromptWholeReadme(githubUrl, repoData) ==
    <<Section("locator", githubUrl, 0, 0, <<>>)>>
    \o (IF TextTruthy(repoData.readme)
        THEN <<Section("readme", <<>>, repoData.readme.len, 0, <<>>)>>
        ELSE <<Section("noReadme", <<>>, 0, 0, <<>>)>>)
    \o (IF Len(repoData.files) > 0
        THEN <<Section("files", <<>>, 0, 0,
                 [i \in 1..Min(Len(repoData.files), MaxFiles) |->
                     Min(repoData.files[i].content.len, FileChars)])>>
        ELSE <<Section("noFiles", <<>>, 0, 0, <<>>)>>)
    \o (IF Len(repoData.commits) > 0
        THEN <<Section("commits", <<>>, 0, Len(repoData.commits),
                 [i \in 1..Min(Len(repoData.commits), MaxCommitLines) |->
                     repoData.commits[i].message])>>
        ELSE <<Section("noCommits", <<>>, 0, 0, <<>>)>>)
    \o <<Section("rubric", <<>>, 0, 0, <<>>)>>

\* A prompt builder that stamps the prompt with how far the run has got:
\* its rubric block states the number of requests the commits call has made.
createDetailedAnalysisPromptStamped(githubUrl, repoData) ==
    <<Section("locator", githubUrl, 0, 0, <<>>)>>
    \o (IF TextTruthy(repoData.readme)
        THEN <<Section("readme", <<>>, Min(repoData.readme.len, ReadmeChars), 0, <<>>)>>
        ELSE <<Section("noReadme", <<>>, 0, 0, <<>>)>>)
    \o (IF Len(repoData.files) > 0
        THEN <<Section("files", <<>>, 0, 0,
                 [i \in 1..Min(Len(repoData.files), MaxFiles) |->
                     Min(repoData.files[i].content.len, FileChars)])>>
        ELSE <<Section("noFiles", <<>>, 0, 0, <<>>)>>)
    \o (IF Len(repoData.commits) > 0
        THEN <<Section("commits", <<>>, 0, Len(repoData.commits),
                 [i \in 1..Min(Len(repoData.commits), MaxCommitLines) |->
                     repoData.commits[i].message])>>
        ELSE <<Section("noCommits", <<>>, 0, 0, <<>>)>>)
    \o <<Section("rubric", <<>>, 0, frames["commits"].fetches, <<>>)>>

\* lines 438-501
createDetailedAnalysisPrompt(githubUrl, repoData) ==
    <<Section("locator", githubUrl, 0, 0, <<>>)>>
    \o (IF TextTruthy(repoData.readme)
        THEN <<Section("readme", <<>>, Min(repoData.readme.len, ReadmeChars), 0, <<>>)>>
        ELSE <<Section("noReadme", <<>>, 0, 0, <<>>)>>)
    \o (IF Len(repoData.files) > 0
        THEN <<Section("files", <<>>, 0, 0,
                 [i \in 1..Min(Len(repoData.files), MaxFiles) |->
                     Min(repoData.files[i].content.len, FileChars)])>>
        ELSE <<Section("noFiles", <<>>, 0, 0, <<>>)>>)
    \o (IF Len(repoData.commits) > 0
        THEN <<Section("commits", <<>>, 0, Len(repoData.commits),
                 [i \in 1..Min(Len(repoData.commits), MaxCommitLines) |->
                     repoData.commits[i].message])>>
        ELSE <<Section("noCommits", <<>>, 0, 0, <<>>)>>)
    \o <<Section("rubric", <<>>, 0, 0, <<>>)>>


(***************************************************************************)
(* The serve handler                                                       *)
(***************************************************************************)
MetadataSites == {"readme", "manifest", "commits"}
Sites == MetadataSites \cup {"openai"}

\* The request: its method, whether req.json() succeeds, and githubUrl.
Request(method, json, hasUrl, githubUrl) ==
    [method |-> method, json |-> json, hasUrl |-> hasUrl, githubUrl |-> githubUrl]

WidgetsUrl == <<"h", "t", "t", "p", "s", ":", "/", "/", "g", "i", "t", "h", "u", "b", ".", "c", "o", "m", "/", "a", "c", "m", "e", "/", "w", "i", "d", "g", "e", "t", "s">>
UrlSamples ==
    {WidgetsUrl,
     <<>>,
     <<"n", "o", "t", "-", "a", "-", "u", "r", "l">>,
     <<"h", "t", "t", "p", "s", ":", "/", "/", "g", "i", "t", "h", "u", "b", ".", "c", "o", "m", "/", "a", "c", "m", "e", "/", "w", "i", "d", "g", "e", "t", "s", "/", "i", "s", "s", "u", "e", "s">>,
     <<"h", "t", "t", "p", ":", "/", "/", "g", "i", "t", "h", "u", "b", ".", "c", "o", "m", "/", "a", "c", "m", "e", "/", "w", "i", "d", "g", "e", "t", "s">>}

Requests ==
    {Request("OPTIONS", FALSE, FALSE, <<>>),
     Request("POST", FALSE, FALSE, <<>>),
     Request("POST", TRUE, FALSE, <<>>)}
    \cup {Request("POST", TRUE, TRUE, url) : url \in UrlSamples}

Environments == [openaiApiKey : BOOLEAN, githubPat : BOOLEAN]

\* The Response objects the handler builds.
NoResponse ==
    [status |-> 0, kind |-> "none", body |-> JsValue("null"),
     error |-> "", details |-> "", upstream |-> 0]
\* line 110
PreflightResponse == [NoResponse EXCEPT !.status = 200, !.kind = "preflight"]
\* lines 130-136 and 142-148
BadRequest(error) ==
    [NoResponse EXCEPT !.status = 400, !.kind = "error", !.error = error]
\* lines 287-296: the catch of the handler; upstream is the status quoted
\* in the message of line 242
InternalError(details, upstream) ==
    [NoResponse EXCEPT !.status = 500, !.kind = "error",
                       !.error = "Internal server error",
                       !.details = details, !.upstream = upstream]
\* lines 277-282: no status given, so 200
ResultResponse(analysisResult) ==
    [NoResponse EXCEPT !.status = 200, !.kind = "result",
                       !.body = JsonStringify(analysisResult)]

\* A handler that starts fetching without looking at what parseGitHubUrl
\* returned.
EarlyResponseIgnoringParse(e, req) ==
    IF req.method = "OPTIONS" THEN PreflightResponse
    ELSE IF ~e.openaiApiKey THEN InternalError("OpenAI API key not configured", 0)
    ELSE IF ~e.githubPat THEN InternalError("GitHub PAT not configured", 0)
    ELSE IF ~req.json THEN InternalError("req.json() rejected", 0)
    ELSE IF ~req.hasUrl \/ req.githubUrl = <<>>
         THEN BadRequest("GitHub URL is required")
    ELSE NoResponse

\* lines 109-149: what the handler answers before any fetch, NoResponse when
\* it goes on to fetch.
EarlyResponse(e, req) ==
    IF req.method = "OPTIONS" THEN PreflightResponse
    ELSE IF ~e.openaiApiKey THEN InternalError("OpenAI API key not configured", 0)
    ELSE IF ~e.githubPat THEN InternalError("GitHub PAT not configured", 0)
    ELSE IF ~req.json THEN InternalError("req.json() rejected", 0)
    ELSE IF ~req.hasUrl \/ req.githubUrl = <<>>
         THEN BadRequest("GitHub URL is required")
    ELSE IF ~parseGitHubUrl(req.githubUrl).ok
         THEN BadRequest("Invalid GitHub URL format")
    ELSE NoResponse

\* lines 109-139: the handler gets as far as calling parseGitHubUrl
ReachesParse(e, req) ==
    /\ req.method # "OPTIONS"
    /\ e.openaiApiKey
    /\ e.githubPat
    /\ req.json
    /\ req.hasUrl
    /\ req.githubUrl # <<>>

IdleFrames ==
    [id \in Sites |->
        IF id = "openai" THEN IdleFrame(OpenAIMaxRetries, OpenAIInitialDelay)
        ELSE IdleFrame(GitHubMaxRetries, GitHubInitialDelay)]

NothingFetched ==
    [readme |-> Pending, manifest |-> Pending, commits |-> PendingCommits]

\* lines 107-158: from the request to the three fetches being under way
ServeStart ==
    /\ pc = "start"
    /\ LET early == EarlyResponse(env, request)
       IN  IF early.kind # "none"
           THEN /\ response' = early
                /\ pc' = "done"
                /\ UNCHANGED frames
           ELSE /\ frames' = [id \in Sites |->
                                IF id \in MetadataSites
                                THEN NewFrame(GitHubMaxRetries, GitHubInitialDelay)
                                ELSE frames[id]]
                /\ pc' = "gathering"
                /\ UNCHANGED response
    /\ repoInfo' = IF ReachesParse(env, request)
                   THEN parseGitHubUrl(request.githubUrl)
                   ELSE repoInfo
    /\ UNCHANGED <<page, env, request, fetched, analysisPrompt, openaiData>>

\* The activation is popped: what it returned (or that it threw) is all
\* that is left of it.
Settled(f) ==
    [f EXCEPT !.st = "settled", !.attempt = 0, !.fetches = 0, !.resultOf = 0]
Ended(f) == f.st \in {"returned", "thrown"}

\* fetchGitHubReadme resumes after its fetchWithExponentialBackoff (lines 379-400)
ReadmeSettles ==
    /\ pc = "gathering"
    /\ Ended(frames["readme"])
    /\ \E body \in ContentBodies :
          fetched' = [fetched EXCEPT
                         !.readme = fetchGitHubReadme(frames["readme"], body)]
    /\ frames' = [frames EXCEPT !["readme"] = Settled(frames["readme"])]
    /\ UNCHANGED <<page, pc, env, request, repoInfo, analysisPrompt, openaiData, response>>

\* fetchGitHubFile resumes after its fetchWithExponentialBackoff (lines 338-359)
ManifestSettles ==
    /\ pc = "gathering"
    /\ Ended(frames["manifest"])
    /\ \E body \in ContentBodies :
          fetched' = [fetched EXCEPT
                         !.manifest = fetchGitHubFile(frames["manifest"], body)]
    /\ frames' = [frames EXCEPT !["manifest"] = Settled(frames["manifest"])]
    /\ UNCHANGED <<page, pc, env, request, repoInfo, analysisPrompt, openaiData, response>>

\* fetchGitHubCommits resumes after its fetchWithExponentialBackoff (lines 420-435)
CommitsSettle ==
    /\ pc = "gathering"
    /\ Ended(frames["commits"])
    /\ \E body \in CommitsBodies :
          fetched' = [fetched EXCEPT
                         !.commits = fetchGitHubCommits(frames["commits"], body)]
    /\ frames' = [frames EXCEPT !["commits"] = Settled(frames["commits"])]
    /\ UNCHANGED <<page, pc, env, request, repoInfo, analysisPrompt, openaiData, response>>

\* A handler that goes on as soon as the first of the three calls resolves.
PromiseAllSettlesOnFirst ==
    /\ pc = "gathering"
    /\ \E id \in MetadataSites : frames[id].st = "settled"
    /\ analysisPrompt' =
          createDetailedAnalysisPrompt(request.githubUrl, RepoData(fetched))
    /\ frames' = [frames EXCEPT
                     !["openai"] = NewFrame(OpenAIMaxRetries, OpenAIInitialDelay)]
    /\ pc' = "inferring"
    /\ UNCHANGED <<page, env, request, repoInfo, fetched, openaiData, response>>

\* lines 154-176: Promise.all settles. When the three calls have resolved,
\* repoData and the prompt are built and the OpenAI request is sent; as soon
\* as one has rejected, the handler's catch answers.
PromiseAllSettles ==
    /\ pc = "gathering"
    /\ IF \E id \in MetadataSites : fetched[id].t = "rejected"
       THEN /\ response' = InternalError("fetch failed", 0)
            /\ pc' = "done"
            /\ UNCHANGED <<frames, analysisPrompt>>
       ELSE /\ \A id \in MetadataSites : frames[id].st = "settled"
            /\ analysisPrompt' =
                  createDetailedAnalysisPrompt(request.githubUrl, RepoData(fetched))
            /\ frames' = [frames EXCEPT
                             !["openai"] = NewFrame(OpenAIMaxRetries, OpenAIInitialDelay)]
            /\ pc' = "inferring"
            /\ UNCHANGED response
    /\ UNCHANGED <<page, env, request, repoInfo, fetched, openaiData>>

\* Values the model puts in vciScore and in confidence.
IntSamples == {-5, 0, 72, 100, 150}
ScoreSamples ==
    {JsNum(k) : k \in IntSamples}
    \cup {JsUndefined, JsNull, JsStr(<<"7", "2">>), JsStr(<<"h", "i", "g", "h">>),
          JsStr(<<>>), JsBool(TRUE), JsBool(FALSE), JsEmptyObject, JsEmptyArray}
SomeAnalysis == JsStr(<<"Consistent formatting throughout.">>)
GivenIndicators ==
    Indicators(JsArrayOf(<<"consistent formatting">>), JsArrayOf(<<>>),
               JsArrayOf(<<>>))
IndicatorSamples ==
    {GivenIndicators, NoIndicators, NullIndicators,
     Indicators(JsArrayOf(<<"consistent formatting">>), NoArray, NoArray)}

\* The completions the model lets the inference service return.
Completions ==
    {NotJson}
    \cup {JsonText(JsValue(k)) :
            k \in {"null", "number", "string", "boolean", "array"}}
    \cup {JsonText(JsObject(v, SomeAnalysis, c, GivenIndicators)) :
            v \in {JsNum(k) : k \in IntSamples}, c \in {JsNum(k) : k \in IntSamples}}
    \cup {JsonText(JsObject(v, SomeAnalysis, JsNum(65), GivenIndicators)) :
            v \in ScoreSamples}
    \cup {JsonText(JsObject(JsNum(72), SomeAnalysis, c, GivenIndicators)) :
            c \in ScoreSamples}
    \cup {JsonText(JsObject(JsNum(72), a, JsNum(65), i)) :
            a \in {SomeAnalysis, JsUndefined}, i \in IndicatorSamples}
    \cup {JsonText(JsObject(JsUndefined, SomeAnalysis, JsUndefined, GivenIndicators)),
          JsonText(JsObject(JsUndefined, JsUndefined, JsUndefined, NoIndicators))}

\* The body of a 2xx answer of the inference service: not JSON, JSON without
\* choices, an empty choices array, an empty content, or a completion text.
InferenceBody(shape, completion) == [shape |-> shape, completion |-> completion]
NoInferenceBody == InferenceBody("none", NotJson)
InferenceBodies ==
    {InferenceBody(shape, NotJson) :
        shape \in {"notJson", "noChoices", "emptyChoices", "emptyContent"}}
    \cup {InferenceBody("text", c) : c \in Completions}

\* lines 252-282: parse, sanitize, respond; the TypeError goes to line 284
Interpret(aiResponse) ==
    LET parsed == ParseOrFallback(aiResponse)
        sanitized == Sanitize(parsed.value)
    IN  IF parsed.threw THEN InternalError("SyntaxError", 0)
        ELSE IF sanitized.threw THEN InternalError("TypeError", 0)
        ELSE ResultResponse(sanitized.value)

\* A handler that answers the fallback result when the inference call failed.
AfterInferenceDegrading(f, body) ==
    IF f.st = "thrown" \/ ~ResponseOk(f.result.status)
    THEN ResultResponse(FallbackResult)
    ELSE CASE body.shape = "notJson" -> InternalError("SyntaxError", 0)
           [] body.shape = "noChoices" -> InternalError("TypeError", 0)
           [] body.shape = "emptyChoices" ->
                 InternalError("No response from OpenAI", 0)
           [] body.shape = "emptyContent" ->
                 InternalError("No response from OpenAI", 0)
           [] OTHER -> Interpret(body.completion)

\* lines 239-297 once fetchWithExponentialBackoff ended as frame f
AfterInference(f, body) ==
    IF f.st = "thrown" THEN InternalError("fetch failed", 0)
    ELSE IF ~ResponseOk(f.result.status)
         THEN InternalError("OpenAI API error", f.result.status)
    ELSE CASE body.shape = "notJson" -> InternalError("SyntaxError", 0)
           [] body.shape = "noChoices" -> InternalError("TypeError", 0)
           [] body.shape = "emptyChoices" ->
                 InternalError("No response from OpenAI", 0)
           [] body.shape = "emptyContent" ->
                 InternalError("No response from OpenAI", 0)
           [] OTHER -> Interpret(body.completion)

\* The handler resumes after the OpenAI call and answers.
ServeAfterInference ==
    /\ pc = "inferring"
    /\ Ended(frames["openai"])
    /\ \E body \in InferenceBodies :
          /\ response' = AfterInference(frames["openai"], body)
          /\ openaiData' = IF /\ frames["openai"].st = "returned"
                              /\ ResponseOk(frames["openai"].result.status)
                           THEN body
                           ELSE openaiData
    /\ frames' = [frames EXCEPT !["openai"] = Settled(frames["openai"])]
    /\ pc' = "done"
    /\ UNCHANGED <<page, env, request, repoInfo, fetched, analysisPrompt>>

(***************************************************************************)
(* The submit page (SubmitPage): fetchAiAnalysis, handleAnalyzeRepo,       *)
(* handleSubmit                                                            *)
(***************************************************************************)
\* No page is open.
NoPage == [open |-> FALSE]

\* Values of the GitHub URL field. The field is an <input type="url">, whose
\* value carries no leading or trailing whitespace.
GadgetsUrl == <<"h", "t", "t", "p", "s", ":", "/", "/", "g", "i", "t", "h", "u", "b", ".", "c", "o", "m", "/", "a", "c", "m", "e", "/", "g", "a", "d", "g", "e", "t", "s">>
PageUrls ==
    {<<>>, <<"n", "o", "t", "-", "a", "-", "u", "r", "l">>, WidgetsUrl, GadgetsUrl}

\* String.prototype.trim
Whitespace == {" ", "\t", "\n", "\r"}
Trim(chars) ==
    LET kept == {i \in 1..Len(chars) : chars[i] \notin Whitespace}
    IN  IF kept = {} THEN <<>>
        ELSE SubSeq(chars,
                    CHOOSE i \in kept : \A j \in kept : i <= j,
                    CHOOSE i \in kept : \A j \in kept : i >= j)

\* [a-zA-Z0-9_.-]
NameChars ==
    {"a", "b", "c", "d", "e", "f", "g", "h", "i", "j", "k", "l", "m",
     "n", "o", "p", "q", "r", "s", "t", "u", "v", "w", "x", "y", "z",
     "A", "B", "C", "D", "E", "F", "G", "H", "I", "J", "K", "L", "M",
     "N", "O", "P", "Q", "R", "S", "T", "U", "V", "W", "X", "Y", "Z",
     "0", "1", "2", "3", "4", "5", "6", "7", "8", "9", "_", ".", "-"}
IsName(chars) ==
    chars # <<>> /\ \A i \in 1..Len(chars) : chars[i] \in NameChars

\* /^https:\/\/github\.com\/[a-zA-Z0-9_.-]+\/[a-zA-Z0-9_.-]+\/?$/
isValidGitHubUrl(url) ==
    /\ StartsWith(url, GitHubPrefix)
    /\ LET rest == SubSeq(url, Len(GitHubPrefix) + 1, Len(url))
           i == FirstSlash(rest)
           tail == SubSeq(rest, i + 1, Len(rest))
           j == FirstSlash(tail)
       IN  /\ i > 1
           /\ IsName(SubSeq(rest, 1, i - 1))
           /\ IsName(IF j = 0 THEN tail ELSE SubSeq(tail, 1, j - 1))
           /\ (j = 0 \/ j = Len(tail))

\* A score that grows by 20 with every declared tool.
calculateFallbackVCIScoreLinear(aiTools) == 10 + 20 * aiTools

\* calculateFallbackVCIScore; aiTools is formData.aiTools.length, all the
\* function reads of the list
calculateFallbackVCIScore(aiTools) ==
    CASE aiTools = 0 -> 10
      [] aiTools = 1 -> 30
      [] aiTools = 2 -> 50
      [] aiTools = 3 -> 70
      [] OTHER -> 85

\* What supabase.functions.invoke('analyze-repo', ...) was called with and
\* resolved to: kept with every analysis to tell where it came from.
Invocation(url, data) == [url |-> url, data |-> data]
NoInvocation == Invocation(<<>>, JsValue("undefined"))

\* AIAnalysisResult | null
AIAnalysisResult(vciScore, analysis, confidence, indicators, of) ==
    [t |-> "object", vciScore |-> vciScore, analysis |-> analysis,
     confidence |-> confidence, indicators |-> indicators, of |-> of]
NoAnalysis ==
    [t |-> "null", vciScore |-> JsUndefined, analysis |-> JsUndefined,
     confidence |-> JsUndefined, indicators |-> NoIndicators,
     of |-> NoInvocation]

\* The completions behind the answers the page is given, and the bodies of
\* the 200 answers the function makes of them (Interpret).
PageCompletions ==
    {JsonText(JsObject(JsNum(72), SomeAnalysis, JsNum(65), GivenIndicators)),
     JsonText(JsObject(JsNum(0 - 5), SomeAnalysis, JsNum(0 - 5), GivenIndicators)),
     JsonText(JsObject(JsNum(72), JsUndefined, JsNum(65), NoIndicators)),
     JsonText(JsValue("array"))}
PipelineBodies == {Interpret(completion).body : completion \in PageCompletions}

\* What invoke resolves to: { data: null, error } for a non-2xx answer or a
\* failed request, { data, error: null } for a 2xx answer.
InvokeOutcome(error, data) == [error |-> error, data |-> data]
InvokeOutcomes ==
    {InvokeOutcome(TRUE, JsValue("null"))}
    \cup {InvokeOutcome(FALSE, data) : data \in PipelineBodies}

\* x || []
OrEmptyArray(x) == IF x.t = "array" THEN x ELSE JsArrayOf(<<>>)

\* fetchAiAnalysis(githubUrl) once invoke resolved to outcome: the error it
\* throws, or the AIAnalysisResult it returns.
fetchAiAnalysis(githubUrl, outcome) ==
    IF outcome.error
    THEN [threw |-> TRUE, message |-> "Failed to analyze repository",
          value |-> NoAnalysis]
    ELSE IF outcome.data.t \in {"null", "undefined"}
    THEN [threw |-> TRUE, message |-> "No analysis data received",
          value |-> NoAnalysis]
    ELSE [threw |-> FALSE, message |-> "",
          value |->
            AIAnalysisResult(
                Clamp(outcome.data.vciScore),
                OrElse(outcome.data.analysis,
                       JsStr(<<"Analysis completed successfully.">>)),
                Clamp(outcome.data.confidence),
                Indicators(OrEmptyArray(outcome.data.indicators.codePatterns),
                           OrEmptyArray(outcome.data.indicators.commitPatterns),
                           OrEmptyArray(outcome.data.indicators.documentationPatterns)),
                Invocation(githubUrl, outcome.data))]

\* lines 361-370: the analysis handleSubmit makes up when fetchAiAnalysis threw
SubmitFallbackAnalysis(aiTools) ==
    AIAnalysisResult(
        JsNum(calculateFallbackVCIScore(aiTools)),
        JsStr(<<"AI analysis was not available. Score based on declared AI tools usage.">>),
        JsNum(30),
        Indicators(JsArrayOf(<<>>), JsArrayOf(<<>>), JsArrayOf(<<>>)),
        NoInvocation)

\* lines 389-410: newProject, by the properties that come from the URL field,
\* the declared tools and the analysis
NewProject(githubUrl, aiTools, finalAnalysis) ==
    [t |-> "object", githubUrl |-> Trim(githubUrl), aiTools |-> aiTools,
     vciScore |-> finalAnalysis.vciScore, analysis |-> finalAnalysis.analysis,
     confidence |-> finalAnalysis.confidence,
     indicators |-> finalAnalysis.indicators, of |-> finalAnalysis.of]
NoProject ==
    [t |-> "null", githubUrl |-> <<>>, aiTools |-> 0, vciScore |-> JsUndefined,
     analysis |-> JsUndefined, confidence |-> JsUndefined,
     indicators |-> NoIndicators, of |-> NoInvocation]

\* The invoke in flight: who awaits it and the githubUrl it was given.
Call(by, githubUrl) == [by |-> by, githubUrl |-> githubUrl]
NoCall == Call("none", <<>>)

\* A handleSubmit in progress: the formData it saw when the form was
\* submitted, the await it is at, and newProject once built.
Submission(stage, githubUrl, aiTools, newProject) ==
    [stage |-> stage, githubUrl |-> githubUrl, aiTools |-> aiTools,
     newProject |-> newProject]
NoSubmission == Submission("none", <<>>, 0, NoProject)

\* The most entries addItem lets the aiTools list hold.
MaxAiTools == 5

\* The page as mounted (lines 52-67) for a signed-in user; of the form, the
\* URL field and the number of declared AI tools are kept, the other fields
\* being valid and no screenshot chosen. project is what createProject stored.
FreshPage ==
    [open |-> TRUE, githubUrl |-> <<>>, aiTools |-> 0, aiAnalysis |-> NoAnalysis,
     analyzingRepo |-> FALSE, loading |-> FALSE, error |-> "",
     call |-> NoCall, submit |-> NoSubmission, project |-> NoProject]

\* onChange of the GitHub URL field (line 626)
EditUrl ==
    /\ pc = "page"
    /\ \E url \in PageUrls \ {page.githubUrl} :
          page' = [page EXCEPT !.githubUrl = url]
    /\ UNCHANGED <<frames, pc, env, request, repoInfo, fetched, analysisPrompt,
                   openaiData, response>>

\* addItem('aiTools', ..., 5) with a tool not yet in the list (lines 471-498)
AddAiTool ==
    /\ pc = "page"
    /\ page' = IF page.aiTools >= MaxAiTools
               THEN [page EXCEPT !.error = "Maximum 5 aiTools allowed"]
               ELSE [page EXCEPT !.aiTools = page.aiTools + 1, !.error = ""]
    /\ UNCHANGED <<frames, pc, env, request, repoInfo, fetched, analysisPrompt,
                   openaiData, response>>

\* removeItem('aiTools', item) with a tool of the list (lines 500-505)
RemoveAiTool ==
    /\ pc = "page"
    /\ page.aiTools > 0
    /\ page' = [page EXCEPT !.aiTools = page.aiTools - 1]
    /\ UNCHANGED <<frames, pc, env, request, repoInfo, fetched, analysisPrompt,
                   openaiData, response>>

\* handleAnalyzeRepo up to its await, the button being enabled (line 635)
AnalyzeClick ==
    /\ pc = "page"
    /\ ~page.analyzingRepo
    /\ Trim(page.githubUrl) # <<>>
    /\ page' =
          IF Trim(page.githubUrl) = <<>>
          THEN [page EXCEPT !.error = "Please provide a GitHub URL first"]
          ELSE IF ~isValidGitHubUrl(page.githubUrl)
          THEN [page EXCEPT !.error = "Please provide a valid GitHub repository URL"]
          ELSE [page EXCEPT !.analyzingRepo = TRUE, !.error = "",
                            !.call = Call("analyze", Trim(page.githubUrl))]
    /\ UNCHANGED <<frames, pc, env, request, repoInfo, fetched, analysisPrompt,
                   openaiData, response>>

\* handleSubmit up to its first await, the button being enabled (line 978):
\* the validations, then either newProject from the analysis the page holds
\* and createProject, or fetchAiAnalysis
SubmitClick ==
    /\ pc = "page"
    /\ ~page.loading
    /\ ~page.analyzingRepo
    /\ page' =
          IF Trim(page.githubUrl) = <<>>
          THEN [page EXCEPT !.error = "GitHub repository URL is required"]
          ELSE IF ~isValidGitHubUrl(page.githubUrl)
          THEN [page EXCEPT !.error = "Please provide a valid GitHub repository URL"]
          ELSE IF page.aiTools > MaxAiTools
          THEN [page EXCEPT !.error = "Maximum 5 AI tools allowed"]
          ELSE IF page.aiAnalysis.t # "null"
          THEN [page EXCEPT
                  !.loading = TRUE, !.error = "",
                  !.submit =
                     Submission("creating", page.githubUrl, page.aiTools,
                                NewProject(page.githubUrl, page.aiTools,
                                           page.aiAnalysis))]
          ELSE [page EXCEPT
                  !.loading = TRUE, !.error = "", !.analyzingRepo = TRUE,
                  !.call = Call("submit", Trim(page.githubUrl)),
                  !.submit = Submission("analysing", page.githubUrl,
                                        page.aiTools, NoProject)]
    /\ UNCHANGED <<frames, pc, env, request, repoInfo, fetched, analysisPrompt,
                   openaiData, response>>

\* The invoke resolves: fetchAiAnalysis returns or throws (lines 86-114) and
\* its caller resumes, handleAnalyzeRepo at lines 130-135, handleSubmit at
\* lines 357-410 up to its await of createProject
InvokeSettles ==
    /\ pc = "page"
    /\ page.call # NoCall
    /\ \E outcome \in InvokeOutcomes :
          LET fetchedAnalysis == fetchAiAnalysis(page.call.githubUrl, outcome)
              finalAnalysis ==
                  IF fetchedAnalysis.threw
                  THEN SubmitFallbackAnalysis(page.submit.aiTools)
                  ELSE fetchedAnalysis.value
          IN  page' =
                IF page.call.by = "analyze"
                THEN [page EXCEPT
                        !.analyzingRepo = FALSE, !.call = NoCall,
                        !.aiAnalysis = fetchedAnalysis.value,
                        !.error = fetchedAnalysis.message]
                ELSE [page EXCEPT
                        !.analyzingRepo = FALSE, !.call = NoCall,
                        !.submit =
                           Submission("creating", page.submit.githubUrl,
                                      page.submit.aiTools,
                                      NewProject(page.submit.githubUrl,
                                                 page.submit.aiTools,
                                                 finalAnalysis))]
    /\ UNCHANGED <<frames, pc, env, request, repoInfo, fetched, analysisPrompt,
                   openaiData, response>>

\* projectService.createProject(newProject) settles (lines 413-422): the
\* project is stored and the page left (its state goes with it), or the
\* error is shown
CreateProjectSettles ==
    /\ pc = "page"
    /\ page.submit.stage = "creating"
    /\ \/ /\ page' = [FreshPage EXCEPT !.open = FALSE,
                                       !.project = page.submit.newProject]
          /\ pc' = "navigated"
       \/ /\ page' = [page EXCEPT
                        !.error = "Failed to submit project. Please try again.",
                        !.submit = NoSubmission, !.loading = FALSE]
          /\ pc' = pc
    /\ UNCHANGED <<frames, env, request, repoInfo, fetched, analysisPrompt,
                   openaiData, response>>

(***************************************************************************)
(* Specifications                                                          *)
(***************************************************************************)
Init ==
    /\ env \in Environments
    /\ request \in Requests
    /\ pc = "start"
    /\ repoInfo = NoRepo
    /\ frames = IdleFrames
    /\ fetched = NothingFetched
    /\ analysisPrompt = <<>>
    /\ openaiData = NoInferenceBody
    /\ response = NoResponse
    /\ page = NoPage

Next ==
    \/ ServeStart
    \/ \E id \in Sites : FetchSettles(id)
    \/ \E id \in Sites : BackoffElapses(id)
    \/ ReadmeSettles
    \/ ManifestSettles
    \/ CommitsSettle
    \/ PromiseAllSettles
    \/ ServeAfterInference

Spec == Init /\ [][Next]_vars

\* fetchWithExponentialBackoff on its own, under every policy up to the bound.
DelaySamples == {GitHubInitialDelay, OpenAIInitialDelay}

InitFetch ==
    /\ \E maxRetries \in 0..MaxRetriesBound, initialDelay \in DelaySamples :
          frames = [id \in {"call"} |-> NewFrame(maxRetries, initialDelay)]
    /\ pc = "call"
    /\ env = [openaiApiKey |-> TRUE, githubPat |-> TRUE]
    /\ request = Request("POST", TRUE, TRUE, WidgetsUrl)
    /\ repoInfo = NoRepo
    /\ fetched = NothingFetched
    /\ analysisPrompt = <<>>
    /\ openaiData = NoInferenceBody
    /\ response = NoResponse
    /\ page = NoPage

NextFetch ==
    \/ FetchSettles("call")
    \/ BackoffElapses("call")

SpecFetch == InitFetch /\ [][NextFetch]_vars

\* The scheduler runs a settled fetch's continuation and fires a due timer.
FairSpecFetch == SpecFetch /\ WF_vars(NextFetch)

\* Two invocations of the handler in progress at once in the same isolate,
\* each at its OpenAI call (nothing was found for either repository); pc,
\* frames, openaiData and response hold what each invocation has of its own.
Runs == {"first", "second"}
PairBodies ==
    {InferenceBody("emptyChoices", NotJson), InferenceBody("text", NotJson),
     InferenceBody("text",
        JsonText(JsObject(JsNum(72), SomeAnalysis, JsNum(65), GivenIndicators)))}

\* lines 239-297 for one of the two invocations
RunAnswers(run) ==
    /\ pc[run] = "inferring"
    /\ Ended(frames[run])
    /\ \E body \in PairBodies :
          /\ response' = [response EXCEPT ![run] = AfterInference(frames[run], body)]
          /\ openaiData' =
                [openaiData EXCEPT ![run] =
                    IF /\ frames[run].st = "returned"
                       /\ ResponseOk(frames[run].result.status)
                    THEN body
                    ELSE @]
    /\ frames' = [frames EXCEPT ![run] = Settled(frames[run])]
    /\ pc' = [pc EXCEPT ![run] = "done"]
    /\ UNCHANGED <<page, env, request, repoInfo, fetched, analysisPrompt>>

InitPair ==
    /\ env = [openaiApiKey |-> TRUE, githubPat |-> TRUE]
    /\ request = Request("POST", TRUE, TRUE, WidgetsUrl)
    /\ repoInfo = parseGitHubUrl(WidgetsUrl)
    /\ fetched = [readme |-> NullText, manifest |-> NullText,
                  commits |-> CommitList(<<>>)]
    /\ analysisPrompt =
          createDetailedAnalysisPrompt(WidgetsUrl, RepoData(fetched))
    /\ frames = [run \in Runs |-> NewFrame(OpenAIMaxRetries, OpenAIInitialDelay)]
    /\ pc = [run \in Runs |-> "inferring"]
    /\ openaiData = [run \in Runs |-> NoInferenceBody]
    /\ response = [run \in Runs |-> NoResponse]
    /\ page = NoPage

NextPair ==
    \/ \E run \in Runs : FetchSettles(run)
    \/ \E run \in Runs : BackoffElapses(run)
    \/ \E run \in Runs : RunAnswers(run)

SpecPair == InitPair /\ [][NextPair]_vars

\* The submit page on its own, from its mounting.
InitSubmit ==
    /\ page = FreshPage
    /\ pc = "page"
    /\ frames = IdleFrames
    /\ env = [openaiApiKey |-> TRUE, githubPat |-> TRUE]
    /\ request = Request("POST", TRUE, TRUE, WidgetsUrl)
    /\ repoInfo = NoRepo
    /\ fetched = NothingFetched
    /\ analysisPrompt = <<>>
    /\ openaiData = NoInferenceBody
    /\ response = NoResponse

NextSubmit ==
    \/ EditUrl
    \/ AddAiTool
    \/ RemoveAiTool
    \/ AnalyzeClick
    \/ SubmitClick
    \/ InvokeSettles
    \/ CreateProjectSettles

SpecSubmit == InitSubmit /\ [][NextSubmit]_vars

\* parseGitHubUrl on its own: the handler is given https://github.com/
\* followed by up to MaxPieces pieces, and runs up to its Promise.all.
MaxPieces == 4
Pieces == {<<"a">>, <<"/">>, <<"?", "x">>, <<"#", "x">>, DotGit}

RECURSIVE Tails(_)
Tails(n) ==
    IF n = 0 THEN {<<>>}
    ELSE LET shorter == Tails(n - 1)
         IN  shorter \cup {t \o p : t \in shorter, p \in Pieces}

InitParse ==
    /\ \E tail \in Tails(MaxPieces) :
          request = Request("POST", TRUE, TRUE, GitHubPrefix \o tail)
    /\ env = [openaiApiKey |-> TRUE, githubPat |-> TRUE]
    /\ pc = "start"
    /\ repoInfo = NoRepo
    /\ frames = IdleFrames
    /\ fetched = NothingFetched
    /\ analysisPrompt = <<>>
    /\ openaiData = NoInferenceBody
    /\ response = NoResponse
    /\ page = NoPage

NextParse == ServeStart

SpecParse == InitParse /\ [][NextParse]_vars


(***************************************************************************)
(* Properties                                                              *)
(***************************************************************************)
\* The latest fetch of frame f met a retryable condition: HTTP 429, HTTP 5xx
\* or a network exception.
MetRetryable(f) ==
    \/ f.result.kind = "exception"
    \/ f.result.kind = "response"
       /\ (f.result.status = 429 \/ (f.result.status >= 500 /\ f.result.status <= 599))

\* C1: fetchWithExponentialBackoff terminates for every maxRetries >= 0. It
\* never calls fetch more than maxRetries + 1 times; an execution whose last
\* attempt met a retryable condition (so that every attempt did) has made
\* exactly maxRetries + 1 attempts; and every execution ends.
C1_AttemptCount ==
    \A id \in DOMAIN frames :
        /\ frames[id].fetches <= frames[id].maxRetries + 1
        /\ (Ended(frames[id]) /\ MetRetryable(frames[id]))
              => frames[id].fetches = frames[id].maxRetries + 1
C1_RetryTermination ==
    /\ []C1_AttemptCount
    /\ <>(\A id \in DOMAIN frames : Ended(frames[id]))
\* maxRetries = 3 and the fourth attempt answered 503: the call has returned
\* that response after exactly 4 attempts.
C1_Witness ==
    \E id \in DOMAIN frames :
        /\ frames[id].maxRetries = 3
        /\ frames[id].st = "returned"
        /\ frames[id].result = HttpResponse(503)
        /\ frames[id].fetches = 4

\* C2: an attempt is followed by a backoff and another attempt only if it
\* ended in HTTP 429, HTTP 5xx or a network exception; a 2xx, a 404 or any
\* other 4xx ends the execution at that attempt, so an execution that saw
\* such a response on its first attempt made one request.
C2_RetryOnlyRetryable ==
    \A id \in DOMAIN frames :
        /\ frames[id].st = "waiting" => MetRetryable(frames[id])
        /\ (frames[id].st \in {"waiting", "returned", "thrown"}
              /\ frames[id].result.kind = "response"
              /\ (ResponseOk(frames[id].result.status)
                    \/ (frames[id].result.status >= 400
                          /\ frames[id].result.status <= 499
                          /\ frames[id].result.status # 429)))
              => (frames[id].st = "returned"
                    /\ frames[id].fetches = frames[id].attempt + 1)
\* A 404 on the first attempt: returned after one request, no retry.
C2_Witness ==
    \E id \in DOMAIN frames :
        /\ frames[id].st = "returned"
        /\ frames[id].result = HttpResponse(404)
        /\ frames[id].attempt = 0
        /\ frames[id].fetches = 1


\* The inference call succeeded: a 2xx answer carrying a completion that is
\* a JSON object, or text that is no JSON at all.
InferenceSucceeded ==
    /\ frames["openai"].st = "settled"
    /\ frames["openai"].result.kind = "response"
    /\ frames["openai"].result.status >= 200
    /\ frames["openai"].result.status <= 299
    /\ openaiData.shape = "text"
    /\ (openaiData.completion.json => openaiData.completion.value.t = "object")

C4_InferenceExhaustedIsFatal ==
    /\ (frames["openai"].st = "returned"
          /\ frames["openai"].result = HttpResponse(500))
          => frames["openai"].fetches = 4
    /\ (pc = "done" /\ frames["openai"].result = HttpResponse(500))
          => (response.status = 500 /\ response.kind = "error")
\* The inference call ended on a 500 and the run answered with the error.
C4_Witness ==
    /\ pc = "done"
    /\ frames["openai"].result = HttpResponse(500)
    /\ response.status = 500
    /\ response.kind = "error"
    /\ response.upstream = 500


\* The inference service returned a non-empty completion text.
CompletionReturned == pc = "done" /\ openaiData.shape = "text"
\* ... and the text is JSON for an object.
ObjectReturned ==
    /\ CompletionReturned
    /\ openaiData.completion.json
    /\ openaiData.completion.value.t = "object"
\* The handler answered 200 with JSON.stringify(analysisResult).
ResultReturned ==
    pc = "done" /\ response.status = 200 /\ response.kind = "result"
EmptyIndicators == Indicators(JsArrayOf(<<>>), JsArrayOf(<<>>), JsArrayOf(<<>>))

\* C5: the interpretation stage never raises: for every non-empty completion
\* text (invalid JSON, or valid JSON of any kind) the run ends with a 200
\* result and never with an error response.
C5_InterpretationNeverRaises == CompletionReturned => ResultReturned

\* C6: in every returned result vciScore and confidence are numbers between
\* 0 and 100, whatever the completion put in those fields.
C6_ScoresAreBoundedNumbers ==
    ResultReturned =>
        /\ response.body.vciScore.t = "number"
        /\ response.body.vciScore.n >= 0
        /\ response.body.vciScore.n <= 100
        /\ response.body.confidence.t = "number"
        /\ response.body.confidence.n >= 0
        /\ response.body.confidence.n <= 100

\* C7: every 200 result body is a complete AnalysisResult: an object with an
\* analysis string and an indicators object whose three pattern lists are
\* arrays, also when the completion omitted them.
C7_ResultIsComplete ==
    ResultReturned =>
        /\ response.body.t = "object"
        /\ response.body.analysis.t = "string"
        /\ response.body.indicators.t = "object"
        /\ response.body.indicators.codePatterns.t = "array"
        /\ response.body.indicators.commitPatterns.t = "array"
        /\ response.body.indicators.documentationPatterns.t = "array"

\* C8: when the completion is not valid JSON the returned result is exactly
\* vciScore 50, confidence 30, a non-empty analysis string and three empty
\* indicator arrays: the sanitizing of lines 272-273 leaves the fallback as
\* it is.
C8_FallbackOnInvalidJson ==
    (CompletionReturned /\ ~openaiData.completion.json) =>
        /\ ResultReturned
        /\ response.body.t = "object"
        /\ response.body.vciScore = JsNum(50)
        /\ response.body.confidence = JsNum(30)
        /\ response.body.analysis.t = "string"
        /\ response.body.analysis.s # <<>>
        /\ response.body.indicators = EmptyIndicators
\* A completion that is no JSON was answered with the fallback result.
C8_Witness ==
    /\ CompletionReturned
    /\ ~openaiData.completion.json
    /\ ResultReturned
    /\ response.body.vciScore = JsNum(50)
    /\ response.body.confidence = JsNum(30)

\* The completion is an object without vciScore, or without confidence.
NumberAbsent ==
    /\ ObjectReturned
    /\ (openaiData.completion.value.vciScore.t = "undefined"
          \/ openaiData.completion.value.confidence.t = "undefined")

ClampInt(k) == IF k < 0 THEN 0 ELSE IF k > 100 THEN 100 ELSE k

\* C10: for a completion that parses to an object with integer vciScore v and
\* integer confidence c, the returned vciScore is min(100, max(0, v)) and the
\* returned confidence min(100, max(0, c)), so that every value in 0..100,
\* 0 included, passes unchanged; the indicators pass unchanged.
C10_ClampsIntegers ==
    (ObjectReturned
       /\ openaiData.completion.value.vciScore.t = "number"
       /\ openaiData.completion.value.confidence.t = "number") =>
        /\ ResultReturned
        /\ response.body.vciScore =
              JsNum(ClampInt(openaiData.completion.value.vciScore.n))
        /\ response.body.confidence =
              JsNum(ClampInt(openaiData.completion.value.confidence.n))
        /\ response.body.indicators = openaiData.completion.value.indicators

\* C11: within one run the stages are strictly ordered under every
\* interleaving of the three fetches: while the run is gathering there is no
\* prompt and no inference request; a prompt exists only once all three
\* metadata calls (with their retries and backoff waits) have settled, and it
\* is the prompt of what they resolved to; the inference call is entered
\* only with the prompt assembled.
C11_StagesInOrder ==
    /\ pc = "gathering"
          => (analysisPrompt = <<>> /\ frames["openai"].st = "idle")
    /\ analysisPrompt # <<>>
          => /\ \A id \in MetadataSites :
                   frames[id].st = "settled" /\ fetched[id].t # "pending"
             /\ analysisPrompt =
                   createDetailedAnalysisPrompt(request.githubUrl, RepoData(fetched))
    /\ frames["openai"].st # "idle" => analysisPrompt # <<>>
\* The first inference request is in flight: the three metadata calls have
\* settled (a README, no manifest, three commits) and the prompt is built.
C11_Witness ==
    /\ pc = "inferring"
    /\ frames["openai"].st = "fetching"
    /\ frames["openai"].fetches = 0
    /\ fetched.readme = Text(500)
    /\ fetched.manifest = NullText
    /\ Len(fetched.commits.list) = 3
    /\ analysisPrompt # <<>>

NotAUrl == <<"n", "o", "t", "-", "a", "-", "u", "r", "l">>
\* The request carries a githubUrl that parseGitHubUrl maps to null.
LocatorUnparsed ==
    /\ request.method = "POST"
    /\ request.json
    /\ request.hasUrl
    /\ ~parseGitHubUrl(request.githubUrl).ok

\* C12: when the request's URL does not parse to a locator, the run ends
\* without any network call: no call site ever issues a fetch or enters a
\* backoff, the handler goes from its start straight to its answer, and the
\* answer is an error response.
C12_NoNetworkOnUnparsedUrl ==
    LocatorUnparsed =>
        /\ \A id \in Sites : frames[id].st = "idle" /\ frames[id].fetches = 0
        /\ pc \in {"start", "done"}
        /\ pc = "done" => (response.kind = "error" /\ response.status \in {400, 500})
\* "not-a-url" was answered 400 "Invalid GitHub URL format" with every call
\* site untouched.
C12_Witness ==
    /\ pc = "done"
    /\ request.githubUrl = NotAUrl
    /\ repoInfo = NoRepo
    /\ response = BadRequest("Invalid GitHub URL format")
    /\ frames = IdleFrames

\* What follows https://github.com/ in the request's githubUrl.
UrlRest == SubSeq(request.githubUrl, Len(GitHubPrefix) + 1, Len(request.githubUrl))
HasChar(chars, c) == \E i \in 1..Len(chars) : chars[i] = c
Slashes(chars) == {i \in 1..Len(chars) : chars[i] = "/"}

\* C13: parseGitHubUrl accepts a URL only if it is exactly
\* https://github.com/<owner>/<name> with an optional single trailing slash:
\* an accepted URL has no '?' and no '#', and after the prefix one slash
\* between owner and name and at most one more, which ends the URL.
C13_AcceptsOnlyOwnerAndName ==
    (pc # "start" /\ repoInfo.ok) =>
        /\ StartsWith(request.githubUrl, GitHubPrefix)
        /\ ~HasChar(UrlRest, "?")
        /\ ~HasChar(UrlRest, "#")
        /\ Cardinality(Slashes(UrlRest)) \in {1, 2}
        /\ Cardinality(Slashes(UrlRest)) = 2 => UrlRest[Len(UrlRest)] = "/"

\* The request has no githubUrl, or one that does not parse.
LocatorMissingOrMalformed ==
    ~request.hasUrl \/ ~parseGitHubUrl(request.githubUrl).ok
CredentialMissing == ~env.openaiApiKey \/ ~env.githubPat
\* The inference call threw, or returned a response that is not 2xx.
InferenceFailed ==
    /\ frames["openai"].st = "settled"
    /\ (frames["openai"].result.kind = "exception"
          \/ ~ResponseOk(frames["openai"].result.status))

\* C14: the status of the answer to a POST is fixed by the outcome class of
\* the run: 400 for a missing or malformed locator, whether or not the
\* credentials are configured; else 500 with a configuration-error message
\* for a missing credential; else 500 for a fatal inference failure; and 200
\* when a result is returned.
C14_StatusByOutcomeClass ==
    (pc = "done" /\ request.method = "POST") =>
        IF LocatorMissingOrMalformed
        THEN response.status = 400
        ELSE IF CredentialMissing
        THEN /\ response.status = 500
             /\ response.details \in {"OpenAI API key not configured",
                                      "GitHub PAT not configured"}
        ELSE IF InferenceFailed
        THEN response.status = 500 /\ response.kind = "error"
        ELSE response.kind = "result" => response.status = 200

\* The inference call ended with a 2xx response.
InferenceAnswered2xx ==
    /\ frames["openai"].st = "settled"
    /\ frames["openai"].result.kind = "response"
    /\ ResponseOk(frames["openai"].result.status)

\* C15: only invalid input, missing configuration and failure of the
\* inference call abort a run: with both credentials configured, a valid
\* locator and an inference call that ended in a 2xx response, the run
\* answers 200 with a result, whatever the metadata fetches returned and
\* whatever the body of the 2xx response contains.
C15_OnlyInputConfigInferenceAbort ==
    (pc = "done"
       /\ ~CredentialMissing
       /\ ~LocatorMissingOrMalformed
       /\ InferenceAnswered2xx) => ResultReturned

\* A 4xx other than 404 and 429.
Terminal4xx(outcome) ==
    /\ outcome.kind = "response"
    /\ outcome.status >= 400
    /\ outcome.status <= 499
    /\ outcome.status \notin {404, 429}

\* C16: a 4xx other than 404 and 429 is handled with one attempt in both
\* roles: no call site waits or retries with such a response in hand, the
\* call returns it from the attempt that received it; on a metadata fetch
\* the field becomes null (the empty list for commits) and the run goes on
\* to assemble the prompt and call the inference service; on the inference
\* call the run ends with an error response.
C16_Terminal4xxIsNotRetried ==
    /\ \A id \in Sites :
          (frames[id].st \in {"waiting", "returned"} /\ Terminal4xx(frames[id].result))
             => /\ frames[id].st = "returned"
                /\ frames[id].fetches = frames[id].attempt + 1
                /\ frames[id].resultOf = frames[id].fetches
    /\ \A id \in {"readme", "manifest"} :
          (frames[id].st = "settled" /\ Terminal4xx(frames[id].result))
             => fetched[id] = NullText
    /\ (frames["commits"].st = "settled" /\ Terminal4xx(frames["commits"].result))
          => fetched.commits = CommitList(<<>>)
    /\ (pc = "done" /\ \E id \in MetadataSites : Terminal4xx(frames[id].result))
          => (analysisPrompt # <<>> /\ frames["openai"].st = "settled")
    /\ (pc = "done" /\ Terminal4xx(frames["openai"].result))
          => /\ response.status = 500
             /\ response.kind = "error"
             /\ response.upstream = frames["openai"].result.status
\* README and commits answered 403 and became null and []; the run went on
\* to the inference call, which answered 403, and ended with the error.
C16_Witness ==
    /\ pc = "done"
    /\ frames["readme"].result = HttpResponse(403)
    /\ frames["commits"].result = HttpResponse(403)
    /\ fetched.readme = NullText
    /\ fetched.commits = CommitList(<<>>)
    /\ analysisPrompt # <<>>
    /\ frames["openai"].result = HttpResponse(403)
    /\ response.status = 500
    /\ response.upstream = 403

\* C17: when the retry budget is exhausted on a retryable condition, the
\* call hands its caller the outcome of the last attempt, not of an earlier
\* one, whatever mix of 429 / 5xx responses and network exceptions the
\* attempts met: after maxRetries + 1 fetches it returns the response of
\* the last fetch, or throws the error of the last fetch; the call itself
\* neither answers nor ends the run.
C17_ExhaustedCarriesLastOutcome ==
    \A id \in DOMAIN frames :
        (Ended(frames[id]) /\ MetRetryable(frames[id])) =>
            /\ frames[id].fetches = frames[id].maxRetries + 1
            /\ frames[id].resultOf = frames[id].fetches
            /\ frames[id].st = "returned" <=> frames[id].result.kind = "response"
            /\ frames[id].st = "thrown" <=> frames[id].result.kind = "exception"
            /\ response = NoResponse
\* With maxRetries 2 the third fetch failed with a network error, and the
\* call threw that third error.
C17_Witness ==
    \E id \in DOMAIN frames :
        /\ frames[id].maxRetries = 2
        /\ frames[id].st = "thrown"
        /\ frames[id].result = NetworkException
        /\ frames[id].fetches = 3
        /\ frames[id].resultOf = 3

\* C18: the wait before attempt n (n >= 1, the first attempt being n = 0)
\* is at least initialDelay * 2^(n-1) and at most 1.1 times that, whether
\* attempt n-1 ended in a 429 / 5xx response or in a network exception.
\* (A waiting call has attempt = n - 1; totalDelay is in 1/DelayScale ms.)
C18_WaitWithinJitterBand ==
    \A id \in DOMAIN frames :
        frames[id].st = "waiting" =>
            LET n == frames[id].attempt + 1
                base == frames[id].initialDelay * 2^(n - 1) * DelayScale
            IN  /\ n >= 1
                /\ frames[id].totalDelay >= base
                /\ 10 * frames[id].totalDelay <= 11 * base
\* The wait before attempt 3 after a network exception, with initialDelay
\* 500 and jitter drawn: more than 2000 ms and at most 2200 ms.
C18_Witness ==
    \E id \in DOMAIN frames :
        /\ frames[id].st = "waiting"
        /\ frames[id].attempt = 2
        /\ frames[id].initialDelay = 500
        /\ frames[id].result = NetworkException
        /\ frames[id].totalDelay > 2000 * DelayScale
        /\ frames[id].totalDelay <= 2200 * DelayScale

\* C19: within one execution the successive backoff waits are strictly
\* increasing for every choice of jitter: whenever a call that has waited
\* before starts another wait, the new wait is longer than the previous one
\* (totalDelay still holds the previous wait while the call is fetching).
C19_WaitsStrictlyIncrease ==
    [][\A id \in DOMAIN frames :
          (frames[id].st = "fetching"
             /\ frames[id].attempt >= 1
             /\ frames'[id].st = "waiting")
             => frames'[id].totalDelay > frames[id].totalDelay]_vars
\* A second wait with no jitter drawn (the shortest it can be) is under way.
C19_Witness ==
    \E id \in DOMAIN frames :
        /\ frames[id].st = "waiting"
        /\ frames[id].attempt = 1
        /\ frames[id].totalDelay = 2 * frames[id].initialDelay * DelayScale

\* The call of frame f ended in a 2xx response.
EndedIn2xx(f) ==
    f.st = "returned" /\ f.result.kind = "response" /\ ResponseOk(f.result.status)
\* What a field may become when its own call has ended as frame f: for a
\* 2xx, what the body decodes to (the text of a body with base64 content,
\* the commits of a body that lists commits, null / [] for a body without);
\* null / [] for anything else.
FieldOutcomes(id, f) ==
    IF id = "commits"
    THEN IF EndedIn2xx(f)
         THEN {CommitList([i \in 1..n |-> [message |-> i, author |-> i, date |-> i]]) :
                 n \in CommitCounts}
         ELSE {CommitList(<<>>)}
    ELSE IF EndedIn2xx(f)
         THEN {Text(len) : len \in ContentLengths} \cup {NullText}
         ELSE {NullText}
\* The snapshot built from the three fields (lines 161-169) holds them as
\* they are: files is the one manifest entry, or empty for a null manifest.
SnapshotHoldsFields ==
    LET repoData == RepoData(fetched)
    IN  /\ repoData.readme = fetched.readme
        /\ repoData.commits = fetched.commits.list
        /\ fetched.manifest.t = "string"
              => (Len(repoData.files) = 1
                    /\ repoData.files[1].content = fetched.manifest)
        /\ fetched.manifest.t # "string" => repoData.files = <<>>

FullSnapshot ==
    RepoData([readme |-> Text(2500), manifest |-> Text(500),
              commits |-> CommitList(MapCommits(CommitsPerPage))])

C22_PromptSectionsInOrder ==
    analysisPrompt # <<>> =>
        /\ Len(analysisPrompt) = 5
        /\ analysisPrompt[1].sec = "locator"
        /\ analysisPrompt[1].text = request.githubUrl
        /\ analysisPrompt[2].sec \in {"readme", "noReadme"}
        /\ analysisPrompt[2].sec = "readme" <=> fetched.readme.t = "string"
        /\ analysisPrompt[2].chars <= 2000
        /\ analysisPrompt[2].sec = "readme"
              => (analysisPrompt[2].chars = fetched.readme.len
                    \/ analysisPrompt[2].chars = 2000)
        /\ analysisPrompt[3].sec \in {"files", "noFiles"}
        /\ analysisPrompt[3].sec = "files" <=> fetched.manifest.t = "string"
        /\ Len(analysisPrompt[3].items) <= 5
        /\ \A i \in 1..Len(analysisPrompt[3].items) :
              analysisPrompt[3].items[i] <= 1000
        /\ analysisPrompt[4].sec \in {"commits", "noCommits"}
        /\ analysisPrompt[4].sec = "commits" <=> Len(fetched.commits.list) > 0
        /\ Len(analysisPrompt[4].items) <= 15
        /\ analysisPrompt[5].sec = "rubric"
\* A prompt for a README of 2500 characters, a manifest and 20 commits:
\* 2000 characters of README, one file excerpt, 15 commit lines.
C22_Witness ==
    /\ analysisPrompt # <<>>
    /\ fetched.readme = Text(2500)
    /\ analysisPrompt[2].sec = "readme"
    /\ analysisPrompt[2].chars = 2000
    /\ analysisPrompt[3].sec = "files"
    /\ Len(analysisPrompt[3].items) = 1
    /\ Len(fetched.commits.list) = 20
    /\ Len(analysisPrompt[4].items) = 15

\* C29: in the assembled prompt the number stated in the commit header
\* ("last N commits") equals the number of commit lines rendered under it,
\* for every commit list the gatherer can return (0 to 20 commits).
C29_CommitHeaderCountsLines ==
    (analysisPrompt # <<>> /\ analysisPrompt[4].sec = "commits")
        => analysisPrompt[4].count = Len(analysisPrompt[4].items)

\* C26: in one run, under every interleaving and every sequence of upstream
\* responses, each metadata resource is requested at most 3 times and the
\* inference endpoint at most 4 times, so at most 13 requests are issued:
\* a call never makes more than 3 (resp. 4) fetches, and each of the four
\* call sites is entered once - its count of fetches never restarts, it only
\* lapses when the call has ended and its caller resumed.
C26_RequestsPerRunBounded ==
    /\ [](/\ \A id \in MetadataSites : frames[id].fetches <= 3
          /\ frames["openai"].fetches <= 4)
    /\ [][\A id \in Sites :
             /\ frames[id].st = "settled" => frames'[id].st = "settled"
             /\ frames'[id].fetches < frames[id].fetches
                   => (Ended(frames[id]) /\ frames'[id].st = "settled")
             /\ frames'[id].fetches <= frames[id].fetches + 1]_vars
\* The three metadata calls have each ended on their third request.
C26_Witness ==
    \A id \in MetadataSites :
        /\ Ended(frames[id])
        /\ frames[id].fetches = 3
        /\ frames[id].resultOf = 3

\* C27: fetchWithExponentialBackoff waits only between a retryable failure
\* and the next attempt. attempt counts the waits that have elapsed (it is
\* incremented once after each). A waiting call holds a retryable outcome
\* and has an attempt left; a wait is followed by a fetch; an execution that
\* has ended has waited once less than it has fetched, and never waits or
\* fetches again.
C27_WaitsOnlyBetweenAttempts ==
    /\ [](\A id \in DOMAIN frames :
            /\ frames[id].st = "waiting"
                  => /\ MetRetryable(frames[id])
                     /\ frames[id].attempt < frames[id].maxRetries
                     /\ frames[id].fetches = frames[id].attempt + 1
            /\ frames[id].st = "fetching" => frames[id].fetches = frames[id].attempt
            /\ Ended(frames[id]) => frames[id].attempt = frames[id].fetches - 1)
    /\ [][\A id \in DOMAIN frames :
             /\ (frames[id].st = "waiting" /\ frames'[id] # frames[id])
                   => (frames'[id].st = "fetching"
                         /\ frames'[id].attempt = frames[id].attempt + 1)
             /\ Ended(frames[id]) => frames'[id].st \notin {"waiting", "fetching"}]_vars
\* A call with a budget of 4 retries returned a 200 from its third fetch,
\* after two waits.
C27_Witness ==
    \E id \in DOMAIN frames :
        /\ frames[id].maxRetries = 4
        /\ frames[id].st = "returned"
        /\ frames[id].result = HttpResponse(200)
        /\ frames[id].fetches = 3
        /\ frames[id].attempt = 2

\* C28: every locator parseGitHubUrl returns has a non-empty owner and a
\* non-empty repository name after the trailing .git is stripped, so the
\* metadata requests, once under way, never target an empty repository name.
C28_LocatorNamesNonEmpty ==
    /\ (pc # "start" /\ repoInfo.ok)
          => (repoInfo.owner # <<>> /\ repoInfo.repo # <<>>)
    /\ (\E id \in MetadataSites : frames[id].st = "fetching")
          => (repoInfo.ok /\ repoInfo.repo # <<>>)

\* What one invocation owns: its fetcher activation, its position, the
\* upstream body it read and its response.
RunState(run) ==
    <<frames[run], pc[run], openaiData[run], response[run]>>
\* The steps one invocation takes when it is the only one in progress: its
\* fetch settles, its wait elapses, or it answers from what its own call
\* ended with.
RunStepsAlone(run) ==
    \/ /\ frames[run].st = "fetching"
       /\ \E outcome \in Outcomes, random \in RandomSamples :
             frames'[run] = AfterFetch(frames[run], outcome, random)
       /\ UNCHANGED <<pc[run], openaiData[run], response[run]>>
    \/ /\ frames[run].st = "waiting"
       /\ frames'[run] = AfterBackoff(frames[run])
       /\ UNCHANGED <<pc[run], openaiData[run], response[run]>>
    \/ /\ pc[run] = "inferring"
       /\ Ended(frames[run])
       /\ pc'[run] = "done"
       /\ frames'[run] = Settled(frames[run])
       /\ \E body \in PairBodies :
             response'[run] = AfterInference(frames[run], body)

WellFormedResult(data) ==
    /\ data.t = "object"
    /\ data.vciScore.t = "number" /\ data.vciScore.n \in 0..100
    /\ data.confidence.t = "number" /\ data.confidence.n \in 0..100
    /\ data.analysis.t = "string"
    /\ data.indicators.t = "object"
    /\ data.indicators.codePatterns.t = "array"
    /\ data.indicators.commitPatterns.t = "array"
    /\ data.indicators.documentationPatterns.t = "array"
\* The projects of a state: the one handleSubmit has built and the one stored.
ProjectsOf(p) == {p.submit.newProject, p.project} \ {NoProject}

\* C24: the page stores what the function answered verbatim: a project built
\* from a well-formed result of the function (vciScore 0 or confidence 0
\* included) has that result's vciScore, confidence, analysis and indicators.
C24_ResultStoredVerbatim ==
    \A project \in ProjectsOf(page) :
        WellFormedResult(project.of.data)
           => /\ project.vciScore = project.of.data.vciScore
              /\ project.confidence = project.of.data.confidence
              /\ project.analysis = project.of.data.analysis
              /\ project.indicators = project.of.data.indicators

\* C25: when the invoke awaited by handleSubmit fails, handleSubmit goes on
\* to createProject with newProject built (no error shown, the submission
\* still in progress), and a project built without an answer of the function
\* has the vciScore of the table for the number of AI tools declared when the
\* form was submitted (10, 30, 50, 70 for 0..3, 85 for more), confidence 30
\* and three empty indicator lists.
C25_FallbackDoesNotBlock ==
    /\ [](\A project \in ProjectsOf(page) :
            project.of = NoInvocation
               => /\ project.vciScore =
                        JsNum(CASE project.aiTools = 0 -> 10
                                [] project.aiTools = 1 -> 30
                                [] project.aiTools = 2 -> 50
                                [] project.aiTools = 3 -> 70
                                [] OTHER -> 85)
                  /\ project.confidence = JsNum(30)
                  /\ project.indicators =
                        Indicators(JsArrayOf(<<>>), JsArrayOf(<<>>), JsArrayOf(<<>>)))
    /\ [][(page.open /\ page.call.by = "submit" /\ page' # page)
             => \/ /\ page'.call = NoCall
                   /\ page'.submit.stage = "creating"
                   /\ page'.submit.newProject # NoProject
                   /\ page'.submit.aiTools = page.submit.aiTools
                   /\ page'.submit.newProject.aiTools = page.submit.aiTools
                   /\ page'.loading
                   /\ page'.error = page.error
                   /\ pc' = "page"
                \/ /\ page'.call = page.call
                   /\ page'.submit = page.submit]_vars
\* A project was stored with the fallback score of four declared tools.
C25_Witness ==
    /\ pc = "navigated"
    /\ page.project # NoProject
    /\ page.project.of = NoInvocation
    /\ page.project.aiTools = 4
    /\ page.project.vciScore = JsNum(85)

\* C30: the analysis stored with a project was produced for the githubUrl
\* the project is submitted with.
C30_AnalysisIsOfSubmittedUrl ==
    \A project \in ProjectsOf(page) :
        project.of # NoInvocation => project.of.url = project.githubUrl


====
